---------------------------- MODULE Spec2Model ----------------------------
(***************************************************************************)
(* A model of JayceON (src/jayceon.c, src/jayceon.h): the recursive        *)
(* descent recognizers, the sorted-pair object, the navigation API and the *)
(* allocator calls the parser makes.                                       *)
(*                                                                         *)
(* Text is a sequence of byte values; a cursor is a 1-based index into it  *)
(* and the byte one past the end is the terminating NUL.  The cursor 0     *)
(* stands for the NULL return of a recognizer.  A block of the allocator   *)
(* is a positive number and 0 is the NULL pointer.                         *)
(*                                                                         *)
(* Doubles are modelled as exact decimals [neg, mant, exp10] (the value    *)
(* mant * 10^exp10, negated when neg); rounding is not modelled.           *)
(***************************************************************************)
EXTENDS Integers, Sequences, FiniteSets, TLC

VARIABLES
    origin,   \* what the text was made from
    string,   \* the text handed to jy_parse or to a recognizer
    heap,     \* the allocator: live blocks, call count, injected failure
    pc,       \* where the caller is
    doc,      \* JYDocument *doc of jy_parse (0 when NULL)
    root,     \* doc->root, the JYObject under construction or built
    cursor,   \* parse_object's string inside the root object's loop
    callee,   \* the function called last
    arg,      \* its key / index argument
    ret,      \* its return value
    outloc    \* the location its output parameter points to

vars == <<origin, string, heap, pc, doc, root, cursor, callee, arg, ret, outloc>>

---------------------------------------------------------------------------
(* Bytes *)

\* The printable bytes 32..95 and 97..126, in order.
Upper == " !\"#$%&'()*+,-./0123456789:;<=>?@ABCDEFGHIJKLMNOPQRSTUVWXYZ[\\]^_"

Lower == "abcdefghijklmnopqrstuvwxyz{|}~"

\* The byte value of a one-character string.
Ord(c) ==
    IF c = "\n" THEN 10
    ELSE IF c = "\t" THEN 9
    ELSE IF c = "\r" THEN 13
    ELSE IF \E n \in 1..Len(Upper) : SubSeq(Upper, n, n) = c
    THEN 31 + CHOOSE n \in 1..Len(Upper) : SubSeq(Upper, n, n) = c
    ELSE 96 + CHOOSE n \in 1..Len(Lower) : SubSeq(Lower, n, n) = c

\* The bytes of a string literal.
Bytes(str) == [i \in 1..Len(str) |-> Ord(SubSeq(str, i, i))]

\* *string for the cursor i: the byte there, or the terminating NUL.
At(s, i) == IF i >= 1 /\ i <= Len(s) THEN s[i] ELSE 0

NULL == 0

\* isspace() in the C locale.
IsSpace(c) == c \in {32, 9, 10, 11, 12, 13}

\* strcmp(a, b) < 0 on NUL-terminated strings, bytes compared as unsigned.
RECURSIVE StrLess(_, _)
StrLess(a, b) ==
    IF b = <<>> THEN FALSE
    ELSE IF a = <<>> THEN TRUE
    ELSE IF Head(a) # Head(b) THEN Head(a) < Head(b)
    ELSE StrLess(Tail(a), Tail(b))

\* The sign of strcmp(a, b): -1, 0 or 1.
strcmp(a, b) == IF a = b THEN 0 ELSE IF StrLess(a, b) THEN -1 ELSE 1

---------------------------------------------------------------------------
(* The allocator *)

\* live: the blocks allocated and not freed; next: the next fresh block;
\* calls: malloc/realloc calls made so far; fail: the ordinals of the calls
\* that return NULL; bad: frees of a block that is not live (a double free);
\* trapping: the build traps on signed overflow instead of wrapping; trap:
\* it did.
NewHeap(fail) ==
    [live |-> {}, next |-> 1, calls |-> 0, fail |-> fail, bad |-> 0,
     trapping |-> FALSE, trap |-> FALSE]

\* malloc(n): [h, p].
Malloc(h) ==
    LET n == h.calls + 1 IN
    IF n \in h.fail
    THEN [h |-> [h EXCEPT !.calls = n], p |-> NULL]
    ELSE [h |-> [h EXCEPT !.calls = n, !.live = @ \cup {h.next}, !.next = @ + 1],
          p |-> h.next]

\* free(p).
Free(h, p) ==
    IF p = NULL THEN h
    ELSE IF p \in h.live THEN [h EXCEPT !.live = @ \ {p}]
    ELSE [h EXCEPT !.bad = @ + 1]

\* realloc(p, n): [h, p]; on failure p stays allocated, on success the block
\* moves.
Realloc(h, p) ==
    LET n == h.calls + 1 IN
    IF n \in h.fail
    THEN [h |-> [h EXCEPT !.calls = n], p |-> NULL]
    ELSE LET h1 == Free(h, p) IN
         [h |-> [h1 EXCEPT !.calls = n, !.live = @ \cup {h.next}, !.next = @ + 1],
          p |-> h.next]

---------------------------------------------------------------------------
(* The bytes the recognizers test for *)

QUOTE == Ord("\"")

BACKSLASH == Ord("\\")

SLASH == Ord("/")

STAR == Ord("*")

COMMA == Ord(",")

COLON == Ord(":")

LBRACKET == Ord("[")

RBRACKET == Ord("]")

LBRACE == Ord("{")

RBRACE == Ord("}")

MINUS == Ord("-")

PLUS == Ord("+")

DOT == Ord(".")

ZERO == Ord("0")

NINE == Ord("9")

NEWLINE == Ord("\n")

IsDigit(c) == c >= ZERO /\ c <= NINE

---------------------------------------------------------------------------
(* parse_space *)

\* The inner loop of a // comment: up to the newline or the NUL.
RECURSIVE SkipLine(_, _)
SkipLine(s, i) ==
    IF At(s, i) # 0 /\ At(s, i) # NEWLINE THEN SkipLine(s, i + 1) ELSE i

\* The inner loop of a block comment: past its closer, or up to the NUL.
RECURSIVE SkipBlock(_, _)
SkipBlock(s, i) ==
    IF At(s, i) = 0 THEN i
    ELSE IF At(s, i) = STAR /\ At(s, i + 1) = SLASH THEN i + 2
    ELSE SkipBlock(s, i + 1)

RECURSIVE parse_space(_, _)
parse_space(s, i) ==
    IF At(s, i) = 0 THEN i
    ELSE IF ~IsSpace(At(s, i))
    THEN IF At(s, i) = SLASH /\ At(s, i + 1) = SLASH
         THEN parse_space(s, SkipLine(s, i + 2))
         ELSE IF At(s, i) = SLASH /\ At(s, i + 1) = STAR
         THEN parse_space(s, SkipBlock(s, i + 2))
         ELSE i
    ELSE parse_space(s, i + 1)

---------------------------------------------------------------------------
(* parse_null, parse_bool *)

\* Whether the bytes of word w are at the cursor i, compared left to right.
Matches(s, i, w) == \A k \in 1..Len(w) : At(s, i + k - 1) = w[k]

WordNull == Bytes("null")

WordTrue == Bytes("true")

WordFalse == Bytes("false")

\* The cursor past the literal, or NULL.
parse_null(s, i) == IF Matches(s, i, WordNull) THEN i + 4 ELSE NULL

\* [p, out]: out is *out after the call.
parse_bool(s, i, out) ==
    LET word == IF At(s, i) = Ord("t") THEN WordTrue ELSE WordFalse
        val == IF word[1] = Ord("t") THEN 1 ELSE 0
    IN  IF Matches(s, i, word)
        THEN [p |-> i + Len(word), out |-> val]
        ELSE [p |-> NULL, out |-> out]

---------------------------------------------------------------------------
(* Machine integers and doubles *)

\* int is 32 bits wide.  The model's own integers are no wider, so the
\* operations that may overflow are done on 16-bit halves.
INT_MAX == 2147483647

INT_MIN == -INT_MAX - 1

HALF == 65536

\* The value a wrapping build keeps for hi * HALF + lo, 0 <= lo < HALF.
WrapHalves(hi, lo) == (((hi + HALF \div 2) % HALF) - HALF \div 2) * HALF + lo

\* Whether hi * HALF + lo, 0 <= lo < HALF, is an int.
InInt(hi, lo) == hi >= -(HALF \div 2) /\ hi < HALF \div 2

\* x * 10 + c in int arithmetic: [val, ub], val what a wrapping build
\* keeps, ub whether the mathematical result is no int.
MulAdd(x, c) ==
    LET t == (x % HALF) * 10 + c
        hi == (x \div HALF) * 10 + t \div HALF
    IN  [val |-> WrapHalves(hi, t % HALF), ub |-> ~InInt(hi, t % HALF)]

\* -x in int arithmetic, which overflows for INT_MIN alone.
Negate(x) == IF x = INT_MIN THEN INT_MIN ELSE -x

\* A double as an exact decimal, mant * 10^exp10, in lowest terms.
RECURSIVE Dec(_, _)
Dec(mant, exp10) ==
    IF mant = 0 THEN [mant |-> 0, exp10 |-> 0]
    ELSE IF mant % 10 = 0 THEN Dec(mant \div 10, exp10 + 1)
    ELSE [mant |-> mant, exp10 |-> exp10]

\* x * 10.0 and x * 0.1.
Times10(x) == Dec(x.mant, x.exp10 + 1)

TimesTenth(x) == Dec(x.mant, x.exp10 - 1)

\* x + d * 10^e for a digit d and e <= x.exp10 (the next fraction digit).
PlusDigit(x, d, e) ==
    LET shift == x.exp10 - e
    IN  Dec(x.mant * (10 ^ shift) + d, e)

\* The loops of pow10: x *= 10.0, n times, and x *= 0.1, n times; on an exact
\* decimal the n steps add up to one shift of the exponent.
Repeat10(x, n) == IF n <= 0 THEN x ELSE Dec(x.mant, x.exp10 + n)

RepeatTenth(x, n) == IF n <= 0 THEN x ELSE Dec(x.mant, x.exp10 - n)

\* The exponent above which pow10 gives up.
MAX_EXP == 30

\* pow10(x, y): [val, ub].  abs(INT_MIN) and -INT_MIN overflow (ub); a
\* wrapping build leaves INT_MIN, for which neither loop runs.
pow10(x, y) ==
    LET absy == IF y < 0 THEN Negate(y) ELSE y
    IN  IF absy > MAX_EXP
        THEN [val |-> Dec(0, 0), ub |-> FALSE]
        ELSE [val |-> RepeatTenth(Repeat10(x, y), Negate(y)), ub |-> y = INT_MIN]

---------------------------------------------------------------------------
(* parse_number *)

\* The integer part's loop: val = val * 10.0 + digit.
RECURSIVE IntDigits(_, _, _)
IntDigits(s, i, val) ==
    IF IsDigit(At(s, i))
    THEN IntDigits(s, i + 1, PlusDigit(Times10(val), At(s, i) - ZERO, 0))
    ELSE [i |-> i, val |-> val]

\* The fraction's loop: frac *= 0.1; val += digit * frac, frac = 10^-k.
RECURSIVE FracDigits(_, _, _, _)
FracDigits(s, i, val, k) ==
    IF IsDigit(At(s, i))
    THEN FracDigits(s, i + 1, PlusDigit(val, At(s, i) - ZERO, -k), k + 1)
    ELSE [i |-> i, val |-> val]

\* The exponent's loop: exp = exp * 10 + *string - '0' in int, that is
\* (exp * 10 + *string) - '0'.  ub: one of the operations overflowed.
RECURSIVE ExpDigits(_, _, _, _)
ExpDigits(s, i, exp, ub) ==
    IF IsDigit(At(s, i))
    THEN LET sum == MulAdd(exp, At(s, i))
             dif == MulAdd(exp, At(s, i) - ZERO)
         IN  ExpDigits(s, i + 1, dif.val, ub \/ sum.ub \/ dif.ub)
    ELSE [i |-> i, exp |-> exp, ub |-> ub]

\* parse_number's results: [p, out, ub], out *out after the call, a double
\* [neg, mant, exp10]; ub: the call overflowed an int, and p and out are
\* what a wrapping build gives.
\* The failure with *out = 0.0 stored first.
NumberFailStoring(out) ==
    [p |-> NULL, out |-> [neg |-> FALSE, mant |-> 0, exp10 |-> 0], ub |-> FALSE]

NumberFail(out) == [p |-> NULL, out |-> out, ub |-> FALSE]

\* if (sign) val *= -1.0; *out = val; return string;
NumberDone(i, sign, val, ub) ==
    [p |-> i, out |-> [neg |-> sign, mant |-> val.mant, exp10 |-> val.exp10],
     ub |-> ub]

\* val = pow10(val, exp), res its result.
NumberScaled(i, sign, ub, res) == NumberDone(i, sign, res.val, ub \/ res.ub)

\* if (sign) exp *= -1, after the exponent's digits.
NumberScale(sign, val, esign, digits) ==
    NumberScaled(digits.i, sign, digits.ub \/ (esign /\ digits.exp = INT_MIN),
                 pow10(val, IF esign THEN Negate(digits.exp) ELSE digits.exp))

\* The exponent part, from the cursor i: the e/E, the sign, the digits.
NumberExponent(s, out, sign, i, val) ==
    IF At(s, i) \notin {Ord("e"), Ord("E")} THEN NumberDone(i, sign, val, FALSE)
    ELSE IF At(s, i + 1) # PLUS /\ At(s, i + 1) # MINUS THEN NumberFail(out)
    ELSE IF ~IsDigit(At(s, i + 2)) THEN NumberFail(out)
    ELSE NumberScale(sign, val, At(s, i + 1) = MINUS,
                     ExpDigits(s, i + 2, 0, FALSE))

\* The exponent part after the digits frac of the fraction.
NumberAfterFraction(s, out, sign, frac) ==
    NumberExponent(s, out, sign, frac.i, frac.val)

\* The fraction part, from the cursor i.
NumberFraction(s, out, sign, i, val) ==
    IF At(s, i) # DOT THEN NumberExponent(s, out, sign, i, val)
    ELSE IF ~IsDigit(At(s, i + 1)) THEN NumberFail(out)
    ELSE NumberAfterFraction(s, out, sign, FracDigits(s, i + 1, val, 1))

\* if (!string || val == 0.0) return NULL, after the digits int.
NumberAfterDigits(s, out, sign, int) ==
    IF int.val.mant = 0 THEN NumberFail(out)
    ELSE NumberFraction(s, out, sign, int.i, int.val)

\* The integer part without the branch for a leading 0.
NumberIntegerAnyDigits(s, out, sign, i) ==
    NumberAfterDigits(s, out, sign, IntDigits(s, i, Dec(0, 0)))

\* The integer part, from the cursor i past the sign.
NumberInteger(s, out, sign, i) ==
    IF At(s, i) = ZERO THEN NumberFraction(s, out, sign, i + 1, Dec(0, 0))
    ELSE NumberAfterDigits(s, out, sign, IntDigits(s, i, Dec(0, 0)))

parse_number(s, i, out) ==
    IF At(s, i) = MINUS THEN NumberInteger(s, out, TRUE, i + 1)
    ELSE NumberInteger(s, out, FALSE, i)

---------------------------------------------------------------------------
(* parse_string *)

JAYCEON_STRING_GROWTH == 16

JAYCEON_ARRAY_GROWTH == 16

JAYCEON_OBJECT_GROWTH == 16

\* The byte an escape stands for, or -1 for an escape the parser refuses.
Unescape(c) ==
    IF c = Ord("n") THEN 10
    ELSE IF c = Ord("r") THEN 13
    ELSE IF c = Ord("b") THEN 8
    ELSE IF c = Ord("f") THEN 12
    ELSE IF c = Ord("t") THEN 9
    ELSE IF c = QUOTE \/ c = BACKSLASH \/ c = SLASH THEN c
    ELSE -1

\* The shrinking realloc(val, len + 1), shrink its result: val = newval if
\* it gave a block; ++string; *out = val.
StringShrunk(i, val, chars, shrink) ==
    [p |-> i + 1,
     out |-> [ptr |-> IF shrink.p # NULL THEN shrink.p ELSE val, chars |-> chars],
     h |-> shrink.h]

\* grow: the realloc that makes room for the terminator, or the buffer as it
\* is.
StringTerminated(i, out, val, chars, grow) ==
    IF grow.p = NULL
    THEN [p |-> NULL, out |-> out, h |-> Free(grow.h, val)]
    ELSE StringShrunk(i, grow.p, chars, Realloc(grow.h, grow.p))

\* The end of parse_string, from the closing quote at the cursor i.
StringFinish(i, out, val, cap, chars, h) ==
    IF cap = Len(chars)
    THEN StringTerminated(i, out, val, chars, Realloc(h, val))
    ELSE StringTerminated(i, out, val, chars, [h |-> h, p |-> val])

\* One turn of parse_string's loop gives [i, val, cap, chars, h]: the cursor
\* of the next byte (NULL: return NULL) and the buffer.
StringFailed(val, h) ==
    [i |-> NULL, val |-> val, cap |-> 0, chars |-> <<>>, h |-> Free(h, val)]

\* val[len++] = c; ++string, grow the realloc before it or the buffer as it is.
StringStored(i, val, newcap, chars, c, grow) ==
    IF grow.p = NULL THEN StringFailed(val, grow.h)
    ELSE [i |-> i + 1, val |-> grow.p, cap |-> newcap, chars |-> Append(chars, c),
          h |-> grow.h]

\* The byte c, read at the cursor i, goes into the buffer.
StringStore(i, val, cap, chars, h, c) ==
    IF Len(chars) = cap
    THEN StringStored(i, val, cap + JAYCEON_STRING_GROWTH, chars, c, Realloc(h, val))
    ELSE StringStored(i, val, cap, chars, c, [h |-> h, p |-> val])

\* One turn of the loop, for the byte at the cursor i, which is no quote.
StringTurn(s, i, val, cap, chars, h) ==
    IF At(s, i) = NEWLINE \/ At(s, i) = 0 THEN StringFailed(val, h)
    ELSE IF At(s, i) # BACKSLASH
    THEN StringStore(i, val, cap, chars, h, At(s, i))
    ELSE IF Unescape(At(s, i + 1)) = -1 THEN StringFailed(val, h)
    ELSE StringStore(i + 1, val, cap, chars, h, Unescape(At(s, i + 1)))

RECURSIVE StringLoop(_, _, _, _, _, _, _)

\* r: the result of a turn.
StringTurned(s, out, r) ==
    IF r.i = NULL THEN [p |-> NULL, out |-> out, h |-> r.h]
    ELSE StringLoop(s, r.i, out, r.val, r.cap, r.chars, r.h)

\* The loop of parse_string from the cursor i; val, cap and chars (val[0..len))
\* are the buffer so far.
StringLoop(s, i, out, val, cap, chars, h) ==
    IF At(s, i) = QUOTE THEN StringFinish(i, out, val, cap, chars, h)
    ELSE StringTurned(s, out, StringTurn(s, i, val, cap, chars, h))

\* [p, out, h]: out is *out after the call, a char * [ptr, chars].
parse_string(s, i, out, h) ==
    IF At(s, i) # QUOTE THEN [p |-> NULL, out |-> out, h |-> h]
    ELSE StringLoop(s, i + 1, out, NULL, 0, <<>>, h)

---------------------------------------------------------------------------
(* Values, arrays, objects *)

\* The content of memory nobody wrote yet.
Garbage == [garbage |-> TRUE]

\* A JYValue nobody wrote yet (JYValue res; JYValue val;).
Uninit == [type |-> "garbage", value |-> Garbage]

\* count free slots of a buffer realloc just grew.
Fresh(n) == [k \in 1..n |-> Garbage]

\* What parse_array and parse_object make of *out before their loop.  values
\* (pairs) is the block, mem its slots [0, capacity), mem[k + 1] the slot k.
EmptyArray == [values |-> NULL, count |-> 0, capacity |-> 0, mem |-> <<>>]

EmptyObject == [pairs |-> NULL, count |-> 0, capacity |-> 0, mem |-> <<>>]

---------------------------------------------------------------------------
(* free_value, free_array, free_object *)

\* The three functions allocate nothing, so the order of their calls of free
\* does not matter to the heap they leave.  Each is modelled by the set of the
\* calls it makes, <<where, pointer>>: where is the path of slot numbers down
\* to the place the pointer is stored (0 for a container's own buffer), which
\* keeps two calls with the same pointer apart.  The pointer -1 is a value
\* whose type nobody wrote, an indeterminate read.

RECURSIVE ValueFrees(_, _)
RECURSIVE ArrayFrees(_, _)
RECURSIVE ObjectFrees(_, _)

ValueFrees(val, at) ==
    IF val = Garbage \/ val.type = "garbage" THEN {<<at, -1>>}
    ELSE IF val.type = "TYPE_STRING" THEN {<<at, val.value.ptr>>}
    ELSE IF val.type = "TYPE_ARRAY" THEN ArrayFrees(val.value, at)
    ELSE IF val.type = "TYPE_OBJECT" THEN ObjectFrees(val.value, at)
    ELSE {}

\* for (i = 0; i < array->count; ++i) free_value(&array->values[i]);
\* free(array->values);
ArrayFrees(array, at) ==
    UNION { IF i < Len(array.mem)
            THEN ValueFrees(array.mem[i + 1], Append(at, i + 1))
            ELSE {<<Append(at, i + 1), -1>>} : i \in 0..(array.count - 1) }
    \cup {<<Append(at, 0), array.values>>}

\* free_object without free(object->pairs[i].key).
ObjectFreesValuesOnly(object, at) ==
    UNION { IF i < Len(object.mem) /\ object.mem[i + 1] # Garbage
            THEN ValueFrees(object.mem[i + 1].value, Append(at, i + 1))
            ELSE {<<Append(at, i + 1), -1>>} : i \in 0..(object.count - 1) }
    \cup {<<Append(at, 0), object.pairs>>}

\* for (i = 0; i < object->count; ++i) { free(object->pairs[i].key);
\* free_value(&object->pairs[i].value); } free(object->pairs);
ObjectFrees(object, at) ==
    UNION { IF i < Len(object.mem) /\ object.mem[i + 1] # Garbage
            THEN {<<Append(at, -(i + 1)), object.mem[i + 1].key.ptr>>}
                 \cup ValueFrees(object.mem[i + 1].value, Append(at, i + 1))
            ELSE {<<Append(at, i + 1), -1>>} : i \in 0..(object.count - 1) }
    \cup {<<Append(at, 0), object.pairs>>}

\* The heap after the calls of free in the set calls: free(NULL) does
\* nothing, and every call but the first one for a live block is a bad free.
FreeAll(h, calls) ==
    LET real == { c \in calls : c[2] # NULL }
        blocks == { c[2] : c \in real } \cap h.live
    IN  [h EXCEPT !.live = @ \ blocks,
                  !.bad = @ + Cardinality(real) - Cardinality(blocks)]

\* Each returns the heap after the call.
free_value(val, h) == FreeAll(h, ValueFrees(val, <<>>))

free_array(array, h) == FreeAll(h, ArrayFrees(array, <<>>))

free_object(object, h) == FreeAll(h, ObjectFrees(object, <<>>))

---------------------------------------------------------------------------
(* parse_value, parse_array, parse_object *)

RECURSIVE parse_value(_, _, _, _)
RECURSIVE parse_array(_, _, _, _)
RECURSIVE parse_object(_, _, _, _)
RECURSIVE ArrayLoop(_, _, _, _)

\* The binary search with an equal key taken for a smaller one.
RECURSIVE SearchSlotEqualAsLess(_, _, _, _)
SearchSlotEqualAsLess(mem, key, l, r) ==
    IF l <= r
    THEN LET m == (l + r) \div 2
             res == strcmp(key, mem[m + 1].key.chars)
         IN  IF res > 0 THEN SearchSlotEqualAsLess(mem, key, m + 1, r)
             ELSE SearchSlotEqualAsLess(mem, key, l, m - 1)
    ELSE [dup |-> FALSE, l |-> l]

\* The binary search of parse_object for key among pairs[l..r]: where to
\* insert, or dup when an equal key is there.
RECURSIVE SearchSlot(_, _, _, _)
SearchSlot(mem, key, l, r) ==
    IF l <= r
    THEN LET m == (l + r) \div 2
             res == strcmp(key, mem[m + 1].key.chars)
         IN  IF res > 0 THEN SearchSlot(mem, key, m + 1, r)
             ELSE IF res < 0 THEN SearchSlot(mem, key, l, m - 1)
             ELSE [dup |-> TRUE, l |-> m]
    ELSE [dup |-> FALSE, l |-> l]

\* The pair stored at pairs[count], without the memmove.
InsertAtEnd(object, l, key, val) ==
    [object EXCEPT
        !.count = @ + 1,
        !.mem = [k \in 1..Len(object.mem) |->
                    IF k = object.count + 1 THEN [key |-> key, value |-> val]
                    ELSE object.mem[k]]]

\* memmove(pairs + l + 1, pairs + l, (count++ - l) * sizeof(Pair)) and the
\* two stores into pairs[l].
InsertAt(object, l, key, val) ==
    [object EXCEPT
        !.count = @ + 1,
        !.mem = [k \in 1..Len(object.mem) |->
                    IF k = l + 1 THEN [key |-> key, value |-> val]
                    ELSE IF k > l + 1 /\ k <= object.count + 1
                    THEN object.mem[k - 1]
                    ELSE object.mem[k]]]

\* parse_value's last alternative: o is parse_object's result.
ValueObject(out, o) ==
    IF o.p # NULL
    THEN [p |-> o.p, out |-> [type |-> "TYPE_OBJECT", value |-> o.out], h |-> o.h]
    ELSE [p |-> NULL, out |-> [out EXCEPT !.value = o.out], h |-> o.h]

\* a is parse_array's result.
ValueArray(s, i, out, a) ==
    IF a.p # NULL
    THEN [p |-> a.p, out |-> [type |-> "TYPE_ARRAY", value |-> a.out], h |-> a.h]
    ELSE ValueObject(out, parse_object(s, i, a.out, a.h))

\* t is parse_string's result.
ValueString(s, i, out, t) ==
    IF t.p # NULL
    THEN [p |-> t.p, out |-> [type |-> "TYPE_STRING", value |-> t.out], h |-> t.h]
    ELSE ValueArray(s, i, out, parse_array(s, i, t.out, t.h))

\* d is parse_number's result.  Its overflow ends a run that traps on it.
ValueNumber(s, i, out, h, d) ==
    IF d.p # NULL
    THEN [p |-> d.p, out |-> [type |-> "TYPE_NUMBER", value |-> d.out],
          h |-> IF d.ub /\ h.trapping THEN [h EXCEPT !.trap = TRUE] ELSE h]
    ELSE ValueString(s, i, out, parse_string(s, i, d.out, h))

\* b is parse_bool's result.
ValueBool(s, i, out, h, b) ==
    IF b.p # NULL
    THEN [p |-> b.p, out |-> [type |-> "TYPE_BOOL", value |-> b.out], h |-> h]
    ELSE ValueNumber(s, i, out, h, parse_number(s, i, b.out))

\* [p, out, h] for one value at the cursor i; out is *out after the call, a
\* JYValue [type, value], value the member of the union written last.
parse_value(s, i, out, h) ==
    IF parse_null(s, i) # NULL
    THEN [p |-> parse_null(s, i), out |-> [out EXCEPT !.type = "TYPE_NULL"],
          h |-> h]
    ELSE ValueBool(s, i, out, h, parse_bool(s, i, out.value))

\* The separator with a closer refused after the ','.
ArraySeparatorThenElement(s, out, h, j) ==
    IF At(s, j) = COMMA
    THEN IF At(s, parse_space(s, j + 1)) = RBRACKET
         THEN [p |-> NULL, out |-> out, h |-> free_array(out, h)]
         ELSE [p |-> parse_space(s, j + 1), out |-> out, h |-> h]
    ELSE IF At(s, j) # RBRACKET
    THEN [p |-> NULL, out |-> out, h |-> free_array(out, h)]
    ELSE [p |-> parse_space(s, j), out |-> out, h |-> h]

\* One turn of parse_array's loop gives [p, out, h]: p the cursor the next
\* turn starts at (NULL: return NULL).  After an element: ',' and
\* insignificant input, or the ']' the loop ends at.
ArraySeparator(s, out, h, j) ==
    IF At(s, j) = COMMA THEN [p |-> parse_space(s, j + 1), out |-> out, h |-> h]
    ELSE IF At(s, j) # RBRACKET
    THEN [p |-> NULL, out |-> out, h |-> free_array(out, h)]
    ELSE [p |-> parse_space(s, j), out |-> out, h |-> h]

\* out->values[out->count++] = res; string = parse_space(string), from the
\* cursor i past the element.
ArrayStore(s, i, out, res, h) ==
    ArraySeparator(s, [out EXCEPT !.mem[out.count + 1] = res, !.count = @ + 1],
                   h, parse_space(s, i))

\* grow: the result of realloc(out->values, ...).
ArrayGrown(s, i, out, res, grow) ==
    IF grow.p = NULL
    THEN [p |-> NULL, out |-> out,
          h |-> free_array(out, free_value(res, grow.h))]
    ELSE ArrayStore(s, i,
                    [out EXCEPT !.capacity = @ + JAYCEON_ARRAY_GROWTH,
                                !.values = grow.p,
                                !.mem = @ \o Fresh(JAYCEON_ARRAY_GROWTH)],
                    res, grow.h)

\* r: the result of parse_value(string, &res).
ArrayElement(s, out, r) ==
    IF r.p = NULL THEN [p |-> NULL, out |-> out, h |-> free_array(out, r.h)]
    ELSE IF out.count = out.capacity
    THEN ArrayGrown(s, r.p, out, r.out, Realloc(r.h, out.values))
    ELSE ArrayStore(s, r.p, out, r.out, r.h)

\* One turn of the loop, from the element at the cursor i.
ArrayTurn(s, i, out, h) == ArrayElement(s, out, parse_value(s, i, Uninit, h))

\* r: the result of a turn.
ArrayTurned(s, r) ==
    IF r.p = NULL THEN r ELSE ArrayLoop(s, r.p, r.out, r.h)

\* The loop of parse_array from the cursor i, which is past insignificant
\* input: [p, out, h].
ArrayLoop(s, i, out, h) ==
    IF At(s, i) = RBRACKET THEN [p |-> i + 1, out |-> out, h |-> h]
    ELSE ArrayTurned(s, ArrayTurn(s, i, out, h))

\* The cursor j is past '[' and insignificant input.
ArrayOpened(s, j, h) ==
    IF At(s, j) = 0 THEN [p |-> NULL, out |-> EmptyArray, h |-> h]
    ELSE ArrayLoop(s, j, EmptyArray, h)

\* [p, out, h]: out is *out after the call, a JYArray.
parse_array(s, i, out, h) ==
    IF At(s, i) # LBRACKET THEN [p |-> NULL, out |-> out, h |-> h]
    ELSE ArrayOpened(s, parse_space(s, i + 1), h)

\* After a pair: ',' and insignificant input, or the '}' the loop ends at.
ObjectSeparator(s, out, h, j) ==
    IF At(s, j) = COMMA THEN [p |-> parse_space(s, j + 1), out |-> out, h |-> h]
    ELSE IF At(s, j) # RBRACE
    THEN [p |-> NULL, out |-> out, h |-> free_object(out, h)]
    ELSE [p |-> parse_space(s, j), out |-> out, h |-> h]

\* slot: the result of the binary search.  i is the cursor past the value.
ObjectSlot(s, i, out, key, val, h, slot) ==
    IF slot.dup
    THEN [p |-> NULL, out |-> out,
          h |-> free_object(out, free_value(val, Free(h, key.ptr)))]
    ELSE ObjectSeparator(s, InsertAt(out, slot.l, key, val), h, parse_space(s, i))

\* The insertion of the pair into out, which has room for it.
ObjectInsert(s, i, out, key, val, h) ==
    ObjectSlot(s, i, out, key, val, h,
               SearchSlot(out.mem, key.chars, 0, out.count - 1))

\* grow: the result of realloc(out->pairs, ...).
ObjectGrown(s, i, out, key, val, grow) ==
    IF grow.p = NULL
    THEN [p |-> NULL, out |-> out,
          h |-> free_object(out, free_value(val, Free(grow.h, key.ptr)))]
    ELSE ObjectInsert(s, i,
                      [out EXCEPT !.capacity = @ + JAYCEON_OBJECT_GROWTH,
                                  !.pairs = grow.p,
                                  !.mem = @ \o Fresh(JAYCEON_OBJECT_GROWTH)],
                      key, val, grow.h)

\* v: the result of parse_value(string, &val).
ObjectValue(s, out, key, v) ==
    IF v.p = NULL
    THEN [p |-> NULL, out |-> out, h |-> free_object(out, Free(v.h, key.ptr))]
    ELSE IF out.count = out.capacity
    THEN ObjectGrown(s, v.p, out, key, v.out, Realloc(v.h, out.pairs))
    ELSE ObjectInsert(s, v.p, out, key, v.out, v.h)

\* The missing colon without free(key).
ObjectColonKeepsKey(s, c, out, key, h) ==
    IF At(s, c) # COLON
    THEN [p |-> NULL, out |-> out, h |-> free_object(out, h)]
    ELSE ObjectValue(s, out, key, parse_value(s, parse_space(s, c + 1), Uninit, h))

\* The cursor c is past the key and insignificant input.
ObjectColon(s, c, out, key, h) ==
    IF At(s, c) # COLON
    THEN [p |-> NULL, out |-> out, h |-> free_object(out, Free(h, key.ptr))]
    ELSE ObjectValue(s, out, key, parse_value(s, parse_space(s, c + 1), Uninit, h))

\* k: the result of parse_string(string, &key).
ObjectKey(s, out, k) ==
    IF k.p = NULL THEN [p |-> NULL, out |-> out, h |-> free_object(out, k.h)]
    ELSE ObjectColon(s, parse_space(s, k.p), out, k.out, k.h)

\* One turn of parse_object's loop, from the key at the cursor i to the cursor
\* past the separator and insignificant input: [p, out, h].
ObjectTurn(s, i, out, h) == ObjectKey(s, out, parse_string(s, i, Garbage, h))

\* r: the result of a turn.
RECURSIVE ObjectLoop(_, _, _, _)
ObjectTurned(s, r) ==
    IF r.p = NULL THEN r ELSE ObjectLoop(s, r.p, r.out, r.h)

\* The loop of parse_object from the cursor i: [p, out, h].
ObjectLoop(s, i, out, h) ==
    IF At(s, i) = RBRACE THEN [p |-> i + 1, out |-> out, h |-> h]
    ELSE ObjectTurned(s, ObjectTurn(s, i, out, h))

\* The cursor j is past '{' and insignificant input.
ObjectOpened(s, j, h) ==
    IF At(s, j) = 0 THEN [p |-> NULL, out |-> EmptyObject, h |-> h]
    ELSE [p |-> j, out |-> EmptyObject, h |-> h]

\* parse_object skipping insignificant input before the brace.
ObjectOpenAfterSpace(s, i, out, h) ==
    IF At(s, parse_space(s, i)) # LBRACE THEN [p |-> NULL, out |-> out, h |-> h]
    ELSE ObjectOpened(s, parse_space(s, parse_space(s, i) + 1), h)

\* parse_object up to its loop: [p, out, h], p the cursor the loop starts at.
ObjectOpen(s, i, out, h) ==
    IF At(s, i) # LBRACE THEN [p |-> NULL, out |-> out, h |-> h]
    ELSE ObjectOpened(s, parse_space(s, i + 1), h)

\* open: the result of ObjectOpen.
ObjectBody(s, open) ==
    IF open.p = NULL THEN open ELSE ObjectLoop(s, open.p, open.out, open.h)

\* [p, out, h]: out is *out after the call, a JYObject.
parse_object(s, i, out, h) == ObjectBody(s, ObjectOpen(s, i, out, h))

---------------------------------------------------------------------------
(* jy_index_s, jy_index_i, jy_index_i_obj *)

\* A JYValue * into a buffer: the slot idx of the block base.  The null
\* pointer is slot 0 of the block NULL.
Slot(base, idx) == [base |-> base, idx |-> idx]

NullValue == Slot(NULL, 0)

\* The loop of jy_index_s over pairs[l..r].
RECURSIVE IndexSearch(_, _, _, _)
IndexSearch(obj, key, l, r) ==
    IF l <= r
    THEN LET m == (l + r) \div 2
             res == strcmp(key, obj.mem[m + 1].key.chars)
         IN  IF res > 0 THEN IndexSearch(obj, key, m + 1, r)
             ELSE IF res < 0 THEN IndexSearch(obj, key, l, m - 1)
             ELSE Slot(obj.pairs, m)
    ELSE NullValue

\* The search started at pairs[1].
jy_index_s_from_one(obj, key) == IndexSearch(obj, key, 1, obj.count - 1)

jy_index_s(obj, key) == IndexSearch(obj, key, 0, obj.count - 1)

jy_index_i(obj, key) ==
    IF obj.count < key THEN NullValue ELSE Slot(obj.values, key)

\* [ret, read, crash]: read is the slot whose key the call loads (-1: none),
\* crash the load through a null pairs.
jy_index_i_obj(obj, index) ==
    IF obj.count < index
    THEN [ret |-> NullValue, read |-> -1, crash |-> FALSE]
    ELSE [ret |-> Slot(obj.pairs, index), read |-> index,
          crash |-> obj.pairs = NULL]

---------------------------------------------------------------------------
(* The texts handed to jy_parse *)

\* The most pairs an object of the Objects family has.
MaxPairs == 3

\* The last allocator call made to fail: a run has one of the calls
\* 1..MaxFail fail, or none.
MaxFail == 40

\* Key literals, as written between the quotes, and the key each decodes to.
\* The last two are written differently and decode to the same key.
KeyLits ==
    { [lit |-> "b", key |-> Bytes("b")],
      [lit |-> "a", key |-> Bytes("a")],
      [lit |-> "\\/", key |-> Bytes("/")],
      [lit |-> "/", key |-> Bytes("/")] }

\* The value written for the pair number n of an object: the digit n.
DigitOf(n) == SubSeq("123456789", n, n)

RECURSIVE PairsText(_, _)
PairsText(keys, n) ==
    IF n > Len(keys) THEN ""
    ELSE (IF n > 1 THEN "," ELSE "") \o "\"" \o keys[n].lit \o "\":"
         \o DigitOf(n) \o PairsText(keys, n + 1)

\* The object literal whose pairs have these keys, in this order.
ObjectText(keys) == "{" \o PairsText(keys, 1) \o "}"

\* Where a text is put in the document.
Wraps == {"root", "member", "element"}

Wrap(w, text) ==
    IF w = "root" THEN text
    ELSE IF w = "member" THEN "{\"o\":" \o text \o "}"
    ELSE "{\"o\":[0, {\"o\":" \o text \o "}]}"

\* Every sequence of at most n key literals.
RECURSIVE KeySeqs(_)
KeySeqs(n) ==
    IF n = 0 THEN {<<>>}
    ELSE LET shorter == KeySeqs(n - 1) IN
         shorter \cup { Append(q, k) : q \in {x \in shorter : Len(x) = n - 1},
                                       k \in KeyLits }

\* The value texts: literals, numbers, strings, containers, well and ill formed.
Scalars ==
    { "null", "true", "false", "nul", "tru", "fals",
      "0", "1", "10", "01", "-01", "00", "-0", "-", "-0.5", "1.", "0.0", "1.25",
      "1e5", "1e+", "1e+2", "25e-1", "1E+30", "1e-30", "1e+31", "1e-31",
      "1e+40", "0e+40", "1e+0000000031",
      "1e+4294967296", "1e+4294967297", "1e-4294967297",
      "1e+2147483647", "1e+2147483648", "1e-2147483648", "1e+2147483650",
      "\"s\"", "\"\"", "\"a\\nb\"", "\"\\u0041\"", "\"ab", "\"a\nb\"",
      "\"\\\"\\\\\\/\\b\\f\\r\\t\"",
      "\"0123456789abcde\"", "\"0123456789abcdef\"", "\"0123456789abcdefg\"" }

Containers ==
    { "[]", "[1,2]", "[1,]", "[,]", "[1 2]", "[", "[ ", "[[1],\"s\",null]",
      "[1 , /*c*/ ]", "[1,", "[1, ", "[1,,]", "{\"a\":1 , }", "{\"a\":1,", "{,}",
      "[\"s\",x]", "[01]", "[1, /*c*/ 2 //x\n ]", "[1 /*c", "[\"s\",{\"a\":\"t\"},[true]]",
      "[1,2,3,4,5,6,7,8,9,10,11,12,13,14,15,16]",
      "[1,2,3,4,5,6,7,8,9,10,11,12,13,14,15,16,{\"a\":\"s\"}]",
      "{}", "{ }", "{\"a\":1,}", "{\"a\":1,\"a\":2}", "{\"a\" 1}", "{\"a\":}",
      "{\"a\":01}", "{\"a\":\"s\",\"b\":[\"t\"],\"c\":{\"d\":\"u\"}}", "{\"a\":\"s\" \"b\":1}",
      "{\"a\":1,\"b\":1,\"c\":1,\"d\":1,\"e\":1,\"f\":1,\"g\":1,\"h\":1,\"i\":1,\"j\":1,\"k\":1,\"l\":1,\"m\":1,\"n\":1,\"o\":1,\"p\":1}",
      "{\"q\":\"s\",\"a\":1,\"b\":1,\"c\":1,\"d\":1,\"e\":1,\"f\":1,\"g\":1,\"h\":1,\"i\":1,\"j\":1,\"k\":1,\"l\":1,\"m\":1,\"n\":1,\"o\":1,\"p\":1}" }

ValueTexts == Scalars \cup Containers

\* What a text was made from: an object with the given keys (family
\* "object") or a value text (family "value"), and what it is wrapped in.
Source(family, keys, text, w) ==
    [family |-> family, keys |-> keys, text |-> text, wrap |-> w]

Sources ==
    { Source("object", q, "", w) : q \in KeySeqs(MaxPairs), w \in Wraps }
    \cup { Source("value", <<>>, v, w) : v \in ValueTexts, w \in Wraps }
    \cup { Source("value", <<>>, v, "root") : v \in {"", " {}", "{} x", "x"} }

TextOf(src) ==
    Bytes(Wrap(src.wrap,
               IF src.family = "object" THEN ObjectText(src.keys) ELSE src.text))

---------------------------------------------------------------------------
(* The containers of a parsed tree *)

RECURSIVE ObjectsInValue(_)
RECURSIVE ObjectsIn(_)
RECURSIVE ArraysInValue(_)

\* Every JYObject of the tree under the object obj, obj included.
ObjectsIn(obj) ==
    {obj} \cup UNION { ObjectsInValue(obj.mem[k].value) : k \in 1..obj.count }

ObjectsInValue(val) ==
    IF val.type = "TYPE_OBJECT" THEN ObjectsIn(val.value)
    ELSE IF val.type = "TYPE_ARRAY"
    THEN UNION { ObjectsInValue(val.value.mem[k]) : k \in 1..val.value.count }
    ELSE {}

\* Every JYArray of the tree under a value.
ArraysInValue(val) ==
    IF val.type = "TYPE_ARRAY"
    THEN {val.value}
         \cup UNION { ArraysInValue(val.value.mem[k]) : k \in 1..val.value.count }
    ELSE IF val.type = "TYPE_OBJECT"
    THEN UNION { ArraysInValue(val.value.mem[k].value) : k \in 1..val.value.count }
    ELSE {}

ArraysIn(obj) == UNION { ArraysInValue(obj.mem[k].value) : k \in 1..obj.count }

---------------------------------------------------------------------------
(* The caller: jy_parse, then the navigation calls, then jy_free *)

\* The texts cut short: every proper prefix of a text.
Cuts(text) == { SubSeq(text, 1, n) : n \in 0..(Len(text) - 1) }

\* The allocator calls jy_parse makes on a text when none fails.
CallsOf(text) ==
    parse_object(text, 1, Garbage, Malloc(NewHeap({})).h).h.calls

\* The sets of failing allocator calls for a run that makes n calls: none,
\* or any one of them, up to the call MaxFail.
FailSets(n) == {{}} \cup { {k} : k \in 1..(IF n < MaxFail THEN n ELSE MaxFail) }

\* The keys and indexes the navigation calls are made with.
LookupKeys == { Bytes(k) : k \in {"a", "b", "/", "o", "q", "zz", ""} }

IndexArgs(count) == {0, count - 1, count, count + 1} \cap Nat

\* What a load of memory nobody wrote may give.
Indeterminate == { Garbage, [ptr |-> NULL, chars |-> <<>>] }

Begin(s, text, fail) ==
    /\ origin = s
    /\ string = text
    /\ heap = NewHeap(fail)
    /\ pc = "start"
    /\ doc = NULL
    /\ root = Garbage
    /\ cursor = 0
    /\ callee = "none"
    /\ arg = Garbage
    /\ ret = NULL
    /\ outloc = Garbage

Init ==
    \E s \in Sources :
        \/ \E fail \in FailSets(CallsOf(TextOf(s))) : Begin(s, TextOf(s), fail)
        \/ \E text \in Cuts(TextOf(s)) : Begin(s, text, {})

\* jy_parse after its malloc gave the block d: open is parse_object up to
\* its loop.
JyParseOpened(d, open) ==
    IF open.p = NULL
    THEN /\ heap' = Free(open.h, d)
         /\ pc' = "returned"
         /\ doc' = d
         /\ UNCHANGED <<root, cursor>>
    ELSE /\ heap' = open.h
         /\ pc' = "loop"
         /\ doc' = d
         /\ root' = open.out
         /\ cursor' = open.p

\* m: the result of doc = malloc(sizeof(*doc)).
JyParseAllocated(m) ==
    IF m.p = NULL
    THEN /\ heap' = m.h
         /\ pc' = "returned"
         /\ UNCHANGED <<doc, root, cursor>>
    ELSE JyParseOpened(m.p, ObjectOpen(string, 1, root, m.h))

\* jy_parse up to the loop of parse_object(string, &doc->root).
JyParse ==
    /\ pc = "start"
    /\ JyParseAllocated(Malloc(heap))
    /\ callee' = "jy_parse"
    /\ ret' = NULL
    /\ UNCHANGED <<origin, string, arg, outloc>>

\* r: the result of a turn of the root object's loop.  A failure returns
\* from jy_parse; a build that traps on signed overflow ends there.
RootTurned(r) ==
    IF r.h.trap
    THEN /\ pc' = "aborted"
         /\ heap' = [r.h EXCEPT !.trapping = FALSE]
         /\ UNCHANGED <<root, cursor>>
    ELSE IF r.p = NULL
    THEN /\ pc' = "returned"
         /\ heap' = Free([r.h EXCEPT !.trapping = FALSE], doc)
         /\ UNCHANGED <<root, cursor>>
    ELSE /\ pc' = "loop"
         /\ heap' = [r.h EXCEPT !.trapping = FALSE]
         /\ root' = r.out
         /\ cursor' = r.p

\* One turn of the loop of the root object.
ParseObjectTurn ==
    /\ pc = "loop"
    /\ At(string, cursor) # RBRACE
    /\ \E trapping \in BOOLEAN :
        RootTurned(ObjectTurn(string, cursor, root,
                              [heap EXCEPT !.trapping = trapping]))
    /\ UNCHANGED <<origin, string, doc, callee, arg, ret, outloc>>

\* The '}' of the root object: parse_object and jy_parse return.
ParseObjectClose ==
    /\ pc = "loop"
    /\ At(string, cursor) = RBRACE
    /\ pc' = "parsed"
    /\ cursor' = cursor + 1
    /\ ret' = doc
    /\ UNCHANGED <<origin, string, heap, doc, root, callee, arg, outloc>>

JyIndexS ==
    /\ pc = "parsed"
    /\ \E obj \in ObjectsIn(root), key \in LookupKeys :
        /\ arg' = [obj |-> obj, key |-> key]
        /\ ret' = jy_index_s(obj, key)
    /\ callee' = "jy_index_s"
    /\ outloc' = Garbage
    /\ UNCHANGED <<origin, string, heap, pc, doc, root, cursor>>

JyIndexI ==
    /\ pc = "parsed"
    /\ \E obj \in ArraysIn(root) : \E key \in IndexArgs(obj.count) :
        /\ arg' = [obj |-> obj, key |-> key]
        /\ ret' = jy_index_i(obj, key)
    /\ callee' = "jy_index_i"
    /\ outloc' = Garbage
    /\ UNCHANGED <<origin, string, heap, pc, doc, root, cursor>>

\* r: the result of jy_index_i_obj(obj, index, &key).  The load of a slot at
\* or past count gives whatever is there; the load through a null pairs ends
\* the run.
IndexedObj(obj, r) ==
    /\ ret' = r.ret
    /\ pc' = IF r.crash THEN "crashed" ELSE "parsed"
    /\ IF r.read = -1 \/ r.crash THEN outloc' = Garbage
       ELSE IF r.read < obj.count THEN outloc' = obj.mem[r.read + 1].key
       ELSE outloc' \in Indeterminate

\* const char *key; jy_index_i_obj(obj, index, &key): outloc is key.
JyIndexIObj ==
    /\ pc = "parsed"
    /\ \E obj \in ObjectsIn(root) : \E index \in IndexArgs(obj.count) :
        /\ arg' = [obj |-> obj, key |-> index]
        /\ IndexedObj(obj, jy_index_i_obj(obj, index))
    /\ callee' = "jy_index_i_obj"
    /\ UNCHANGED <<origin, string, heap, doc, root, cursor>>

JyFree ==
    /\ pc = "parsed"
    /\ heap' = Free(free_object(root, heap), doc)
    /\ pc' = "freed"
    /\ callee' = "jy_free"
    /\ arg' = Garbage
    /\ ret' = NULL
    /\ outloc' = Garbage
    /\ UNCHANGED <<origin, string, doc, root, cursor>>

Next ==
    \/ JyParse
    \/ ParseObjectTurn
    \/ ParseObjectClose
    \/ JyIndexS
    \/ JyIndexI
    \/ JyIndexIObj
    \/ JyFree

Spec == Init /\ [][Next]_vars

---------------------------------------------------------------------------
(* The recognizers called one at a time *)

\* A recognizer is called at the first byte of a value text; outloc is the
\* location its output parameter points to, which nobody wrote: a JYValue
\* for parse_value, the member of the union or the local for the others.
InitRec ==
    \E v \in ValueTexts, loc \in {Garbage, Uninit} :
    \E fail \in FailSets(parse_value(Bytes(v), 1, Uninit, NewHeap({})).h.calls) :
        /\ origin = Source("value", <<>>, v, "none")
        /\ string = Bytes(v)
        /\ heap = NewHeap(fail)
        /\ pc = "call"
        /\ doc = NULL
        /\ root = Garbage
        /\ cursor = 1
        /\ callee = "none"
        /\ arg = Garbage
        /\ ret = NULL
        /\ outloc = loc

\* The return of a recognizer: r is [p, out] or [p, out, h].  arg keeps what
\* the location held before the call.
Called(name, p, o, h) ==
    /\ pc' = "called"
    /\ callee' = name
    /\ arg' = outloc
    /\ ret' = p
    /\ outloc' = o
    /\ heap' = h
    /\ UNCHANGED <<origin, string, doc, root, cursor>>

CallParseNull ==
    /\ pc = "call"
    /\ outloc = Garbage
    /\ Called("parse_null", parse_null(string, cursor), outloc, heap)

CalledBool(r) == Called("parse_bool", r.p, r.out, heap)

CallParseBool ==
    /\ pc = "call"
    /\ outloc = Garbage
    /\ CalledBool(parse_bool(string, cursor, outloc))

\* A build that traps on signed overflow ends in the call.
CalledNumber(r, trapping) ==
    IF r.ub /\ trapping
    THEN /\ pc' = "aborted"
         /\ callee' = "parse_number"
         /\ UNCHANGED <<origin, string, heap, doc, root, cursor, arg, ret, outloc>>
    ELSE Called("parse_number", r.p, r.out, heap)

CallParseNumber ==
    /\ pc = "call"
    /\ outloc = Garbage
    /\ \E trapping \in BOOLEAN :
        CalledNumber(parse_number(string, cursor, outloc), trapping)

CalledString(r) == Called("parse_string", r.p, r.out, r.h)

CallParseString ==
    /\ pc = "call"
    /\ outloc = Garbage
    /\ CalledString(parse_string(string, cursor, outloc, heap))

\* r: the result of a recognizer that calls parse_value.
CalledNested(name, r) ==
    IF r.h.trap
    THEN /\ pc' = "aborted"
         /\ callee' = name
         /\ UNCHANGED <<origin, string, heap, doc, root, cursor, arg, ret, outloc>>
    ELSE Called(name, r.p, r.out, [r.h EXCEPT !.trapping = FALSE])

CallParseArray ==
    /\ pc = "call"
    /\ outloc = Garbage
    /\ \E trapping \in BOOLEAN :
        CalledNested("parse_array",
                     parse_array(string, cursor, outloc,
                                 [heap EXCEPT !.trapping = trapping]))

CallParseObject ==
    /\ pc = "call"
    /\ outloc = Garbage
    /\ \E trapping \in BOOLEAN :
        CalledNested("parse_object",
                     parse_object(string, cursor, outloc,
                                  [heap EXCEPT !.trapping = trapping]))

CallParseValue ==
    /\ pc = "call"
    /\ outloc = Uninit
    /\ \E trapping \in BOOLEAN :
        CalledNested("parse_value",
                     parse_value(string, cursor, outloc,
                                 [heap EXCEPT !.trapping = trapping]))

NextRec ==
    \/ CallParseNull
    \/ CallParseBool
    \/ CallParseNumber
    \/ CallParseString
    \/ CallParseArray
    \/ CallParseObject
    \/ CallParseValue

SpecRec == InitRec /\ [][NextRec]_vars

---------------------------------------------------------------------------
(* What the texts say, read off the way they were made *)

\* The text is whole: not cut short.
Whole == string = TextOf(origin)

\* The object the Objects family wrote, in the parsed tree.
TargetObject(obj, w) ==
    IF w = "root" THEN obj
    ELSE IF w = "member" THEN obj.mem[1].value.value
    ELSE obj.mem[1].value.value.mem[2].value.mem[1].value.value

\* The JYValue of the digit n.
NumberValue(n) ==
    [type |-> "TYPE_NUMBER", value |-> [neg |-> FALSE, mant |-> n, exp10 |-> 0]]

\* Two pairs of the written object have keys that decode to the same bytes.
HasDup(keys) ==
    \E m, n \in 1..Len(keys) : m < n /\ keys[m].key = keys[n].key

\* The pairs of the written object with the key k.
PairsWith(keys, k) == { n \in 1..Len(keys) : keys[n].key = k }

---------------------------------------------------------------------------
(* Claims *)

\* C1: while parse_object builds an object and after it, the keys of
\* pairs[0..count) are strictly increasing under strcmp, in the root object
\* and in every nested one; the pairs listed by index are the pairs of the
\* input, in key order.
C1_KeysStrictlyIncreasing ==
    pc \in {"loop", "parsed"} =>
        /\ \A obj \in ObjectsIn(root) : \A k \in 1..(obj.count - 1) :
              StrLess(obj.mem[k].key.chars, obj.mem[k + 1].key.chars)
        /\ (pc = "parsed" /\ origin.family = "object" /\ Whole) =>
              LET obj == TargetObject(root, origin.wrap) IN
              /\ obj.count = Len(origin.keys)
              /\ { obj.mem[k].key.chars : k \in 1..obj.count }
                    = { origin.keys[n].key : n \in 1..Len(origin.keys) }

\* Three pairs written in decreasing key order were parsed.
C1_Witness ==
    /\ pc = "parsed"
    /\ origin.family = "object"
    /\ origin.wrap = "root"
    /\ root.count = MaxPairs
    /\ \A n \in 1..(MaxPairs - 1) :
          StrLess(origin.keys[n + 1].key, origin.keys[n].key)

\* C2: an object literal with two pairs whose decoded keys are equal, at the
\* root or nested, is never parsed (jy_parse returns NULL); while the root
\* object is built, the value stored with a key is that of the first pair
\* with the key: a later pair never overwrites it.
C2_DuplicateKeyFails ==
    (origin.family = "object" /\ Whole) =>
        /\ HasDup(origin.keys) => pc \notin {"parsed", "freed"}
        /\ pc = "returned" => ret = NULL
        /\ (origin.wrap = "root" /\ pc \in {"loop", "parsed"}) =>
              \A k \in 1..root.count :
                  \E n \in PairsWith(origin.keys, root.mem[k].key.chars) :
                      /\ root.mem[k].value = NumberValue(n)
                      /\ \A m \in PairsWith(origin.keys, root.mem[k].key.chars) :
                            n <= m

\* jy_parse returned NULL for an object nested in an array whose first and
\* third keys are written differently and decode to the same bytes.
C2_Witness ==
    /\ pc = "returned"
    /\ ret = NULL
    /\ heap.fail = {}
    /\ Whole
    /\ origin.family = "object"
    /\ origin.wrap = "element"
    /\ Len(origin.keys) = 3
    /\ origin.keys[1].key = origin.keys[3].key
    /\ origin.keys[1].lit # origin.keys[3].lit
    /\ origin.keys[1].key # origin.keys[2].key

\* C3: jy_index_s(obj, k) on an object of a parsed document returns the value
\* slot of the pair whose key is k when there is one, and NULL when there is
\* none; on the object the text wrote, the slot holds the value written with
\* k, and NULL is returned exactly for the keys the text does not have.
C3_IndexByKey ==
    (pc = "parsed" /\ callee = "jy_index_s") =>
        /\ \A k \in 1..arg.obj.count :
              arg.obj.mem[k].key.chars = arg.key => ret = Slot(arg.obj.pairs, k - 1)
        /\ (\A k \in 1..arg.obj.count : arg.obj.mem[k].key.chars # arg.key)
              => ret = NullValue
        /\ (origin.family = "object" /\ Whole
            /\ arg.obj = TargetObject(root, origin.wrap)) =>
              IF PairsWith(origin.keys, arg.key) = {}
              THEN ret = NullValue
              ELSE /\ ret.base = arg.obj.pairs
                   /\ ret.idx < arg.obj.count
                   /\ \E n \in PairsWith(origin.keys, arg.key) :
                         arg.obj.mem[ret.idx + 1].value = NumberValue(n)

\* A key of a nested three-pair object was looked up and found in the first
\* slot, where the text had written it last.
C3_Witness ==
    /\ pc = "parsed"
    /\ callee = "jy_index_s"
    /\ origin.family = "object"
    /\ origin.wrap = "member"
    /\ arg.obj = TargetObject(root, origin.wrap)
    /\ arg.obj.count = 3
    /\ ret = Slot(arg.obj.pairs, 0)
    /\ arg.obj.mem[1].value = NumberValue(3)

\* C4 (as claimed): jy_index_i and jy_index_i_obj with an index that is not
\* less than count return NULL, load no slot and leave *out_key unwritten.
C4_IndexBoundsChecked ==
    (callee \in {"jy_index_i", "jy_index_i_obj"} /\ arg.key >= arg.obj.count) =>
        /\ ret = NullValue
        /\ pc # "crashed"
        /\ outloc = Garbage

\* C5: jy_parse returns a document only for a text whose byte 0 is '{'; for
\* any other text (empty, a bare scalar, a bare array, leading space) it
\* returns NULL.
C5_RootMustBeObject ==
    /\ pc \in {"parsed", "freed"} => At(string, 1) = LBRACE /\ doc # NULL
    /\ (pc = "parsed" /\ callee = "jy_parse") => ret = doc
    /\ (At(string, 1) # LBRACE /\ pc # "start") => pc = "returned" /\ ret = NULL

\* jy_parse returned NULL for the bare array [1,2].
C5_Witness ==
    /\ pc = "returned"
    /\ ret = NULL
    /\ heap.fail = {}
    /\ origin.family = "value"
    /\ origin.wrap = "root"
    /\ origin.text = "[1,2]"
    /\ Whole

\* C6: when jy_parse returns NULL, every block allocated during the call is
\* freed, once: no block is live and no free was a double free.
C6_FailedParseLeaksNothing ==
    pc = "returned" => heap.live = {} /\ heap.bad = 0

\* jy_parse returned NULL because an allocation failed inside an object
\* nested in an array, after five blocks had been allocated.
C6_Witness ==
    /\ pc = "returned"
    /\ origin.wrap = "element"
    /\ Cardinality(heap.fail) = 1
    /\ heap.next > 5
    /\ heap.calls \in heap.fail

\* C7: jy_free of a parsed document frees every block the parse allocated,
\* once, and reads only slots below count: no block is live and no free was
\* a double free or of a value nobody wrote.
C7_FreeReleasesEverything ==
    pc = "freed" => heap.live = {} /\ heap.bad = 0

\* A document with a string, an array holding a string and an object
\* holding a string was parsed and freed.
C7_Witness ==
    /\ pc = "freed"
    /\ origin.text = "{\"a\":\"s\",\"b\":[\"t\"],\"c\":{\"d\":\"u\"}}"
    /\ origin.wrap = "member"
    /\ heap.fail = {}
    /\ heap.next > 10

\* The text starts, after an optional '-', with 0 and another digit.
AfterSign(s) == IF At(s, 1) = MINUS THEN 2 ELSE 1

LeadingZero(s) == At(s, AfterSign(s)) = ZERO /\ IsDigit(At(s, AfterSign(s) + 1))

\* The containers among the texts that hold a number with a leading zero.
LeadingZeroContainers == {"[01]", "{\"a\":01}"}

\* The text is a number literal: digits, then e or E, a sign and digits.
ExpAt(s) == CHOOSE i \in 1..Len(s) : s[i] \in {Ord("e"), Ord("E")}

HasExponent(s) ==
    /\ \E i \in 2..Len(s) : s[i] \in {Ord("e"), Ord("E")}
    /\ \A i \in 1..(ExpAt(s) - 1) : IsDigit(s[i])
    /\ At(s, ExpAt(s) + 1) \in {PLUS, MINUS}
    /\ ExpAt(s) + 2 <= Len(s)
    /\ \A i \in (ExpAt(s) + 2)..Len(s) : IsDigit(s[i])

\* The exponent's digits from the first that is not 0.
ExpDigitsFrom(s) ==
    LET nz == { i \in (ExpAt(s) + 2)..Len(s) : s[i] # ZERO }
    IN  IF nz = {} THEN Len(s) + 1
        ELSE CHOOSE i \in nz : \A k \in nz : i <= k

RECURSIVE DigitsValue(_, _, _)
DigitsValue(s, from, to) ==
    IF to < from THEN 0
    ELSE DigitsValue(s, from, to - 1) * 10 + (s[to] - ZERO)

\* |E| > 30 for the exponent E the digits denote: more than two significant
\* digits, or two that make more than 30.
ExpBig(s) ==
    \/ Len(s) - ExpDigitsFrom(s) + 1 > 2
    \/ DigitsValue(s, ExpDigitsFrom(s), Len(s)) > MAX_EXP

\* mantissa * 10^E when |E| <= 30.
ScaledMantissa(s) ==
    LET e == DigitsValue(s, ExpDigitsFrom(s), Len(s))
    IN  Dec(DigitsValue(s, 1, ExpAt(s) - 1),
            IF s[ExpAt(s) + 1] = MINUS THEN -e ELSE e)

\* C8 (as claimed): on a text that starts, after an optional '-', with 0 and
\* another digit, parse_number fails and parse_value fails.
C8_LeadingZeroRejected ==
    (callee \in {"parse_number", "parse_value"} /\ LeadingZero(string)) =>
        pc = "called" /\ ret = NULL

\* C8 (as the code has it): on such a text parse_number and parse_value
\* succeed: they take the sign and the 0, store zero (as TYPE_NUMBER for
\* parse_value) and return the cursor at the digit after the 0.  The literal
\* is refused by the container around it: parse_array, parse_object and
\* parse_value fail on [01] and {"a":01}, with nothing left allocated.
C8_LeadingZeroStopsAfterZero ==
    /\ (callee \in {"parse_number", "parse_value"} /\ LeadingZero(string)) =>
          /\ pc = "called"
          /\ ret = AfterSign(string) + 1
          /\ LET zero == [neg |-> At(string, 1) = MINUS, mant |-> 0, exp10 |-> 0]
             IN  outloc = IF callee = "parse_number" THEN zero
                          ELSE [type |-> "TYPE_NUMBER", value |-> zero]
    /\ (callee \in {"parse_array", "parse_object", "parse_value"}
        /\ origin.text \in LeadingZeroContainers) =>
          /\ pc = "called"
          /\ ret = NULL
          /\ heap.live = {}

\* parse_value returned the cursor 3 for the text -01.
C8_Witness ==
    /\ pc = "called"
    /\ callee = "parse_value"
    /\ origin.text = "-01"
    /\ ret = 3
    /\ outloc.type = "TYPE_NUMBER"

\* C9 (as claimed): on a number literal with the exponent E parse_number
\* succeeds; the value is 0 when |E| > 30 and mantissa * 10^E otherwise,
\* however many digits the exponent has.
C9_ExponentClamped ==
    (callee = "parse_number" /\ HasExponent(string)) =>
        /\ pc = "called"
        /\ ret = Len(string) + 1
        /\ IF ExpBig(string) THEN outloc.mant = 0
           ELSE /\ outloc.mant = ScaledMantissa(string).mant
                /\ outloc.exp10 = ScaledMantissa(string).exp10

\* C10 (as claimed): a recognizer that fails leaves the location it was to
\* store into as it was before the call.
C10_FailureWritesNothing ==
    (pc = "called" /\ ret = NULL) => outloc = arg

\* C10 (as the code has it): a failing parse_null, parse_bool, parse_number
\* or parse_string leaves the location as it was; parse_array and
\* parse_object do when the first byte is not their bracket, and past it
\* they have reset the container before they fail; a failing parse_value
\* never writes the type tag, and leaves the whole value as it was when the
\* first byte is neither bracket.
C10_FailureWritesNoScalarNoTag ==
    (pc = "called" /\ ret = NULL) =>
        /\ callee \in {"parse_null", "parse_bool", "parse_number", "parse_string"}
              => outloc = arg
        /\ (callee = "parse_array" /\ At(string, 1) # LBRACKET) => outloc = arg
        /\ (callee = "parse_object" /\ At(string, 1) # LBRACE) => outloc = arg
        /\ callee = "parse_value" =>
              /\ outloc.type = arg.type
              /\ At(string, 1) \notin {LBRACKET, LBRACE} => outloc = arg

\* parse_string failed on an unterminated string after it had allocated its
\* buffer, and left the location as it was.
C10_Witness ==
    /\ pc = "called"
    /\ callee = "parse_string"
    /\ ret = NULL
    /\ origin.text = "\"ab"
    /\ heap.next > 1
    /\ heap.live = {}
    /\ outloc = arg

\* The texts with one element or pair, a ',' and, after insignificant input
\* or none, the closer; and the texts whose ',' has no closer after it or no
\* element before it.
ArraysCommaCloser == {"[1,]", "[1 , /*c*/ ]"}

ObjectsCommaCloser == {"{\"a\":1,}", "{\"a\":1 , }"}

ArraysCommaOnly == {"[1,", "[1, ", "[,]", "[1,,]"}

ObjectsCommaOnly == {"{\"a\":1,", "{,}"}

\* No allocator call of the run was one made to fail.
NoCallFailed == heap.fail \cap 1..heap.calls = {}

\* C11: a ',' followed, after insignificant input, by the closer ends the
\* container: parse_array (and parse_value) take [1,] as the array of the
\* one element 1 and parse_object (and parse_value) take {"a":1,} as the
\* object of the one pair "a": 1, with the cursor past the closer; a ','
\* followed by the end of the input, by another ',' or standing before any
\* element makes them fail, with nothing left allocated.
C11_TrailingComma ==
    pc = "called" =>
        /\ (origin.text \in ArraysCommaCloser /\ NoCallFailed
            /\ callee \in {"parse_array", "parse_value"}) =>
              LET array == IF callee = "parse_value" THEN outloc.value ELSE outloc
              IN  /\ ret = Len(string) + 1
                  /\ callee = "parse_value" => outloc.type = "TYPE_ARRAY"
                  /\ array.count = 1
                  /\ array.mem[1] = NumberValue(1)
        /\ (origin.text \in ObjectsCommaCloser /\ NoCallFailed
            /\ callee \in {"parse_object", "parse_value"}) =>
              LET object == IF callee = "parse_value" THEN outloc.value ELSE outloc
              IN  /\ ret = Len(string) + 1
                  /\ callee = "parse_value" => outloc.type = "TYPE_OBJECT"
                  /\ object.count = 1
                  /\ object.mem[1].key.chars = Bytes("a")
                  /\ object.mem[1].value = NumberValue(1)
        /\ (origin.text \in ArraysCommaOnly
            /\ callee \in {"parse_array", "parse_value"}) =>
              ret = NULL /\ heap.live = {} /\ heap.bad = 0
        /\ (origin.text \in ObjectsCommaOnly
            /\ callee \in {"parse_object", "parse_value"}) =>
              ret = NULL /\ heap.live = {} /\ heap.bad = 0

\* parse_array returned the cursor past the ']' of [1 , /*c*/ ] with one
\* element stored.
C11_Witness ==
    /\ pc = "called"
    /\ callee = "parse_array"
    /\ origin.text = "[1 , /*c*/ ]"
    /\ ret = Len(string) + 1
    /\ outloc.count = 1
    /\ heap.live # {}

===========================================================================
